---- MODULE Spec2Model ----
(***************************************************************************)
(* The Firestore-backed OAuth authorization engine of mcp_simple_auth:     *)
(* FirestoreClient (five collections, lazy expiry on read, sweeps) and     *)
(* FirestoreOAuthProvider (authorize, handle_simple_callback,              *)
(* load/exchange_authorization_code, load_access_token, revoke_token,      *)
(* cleanup_expired_data).                                                  *)
(*                                                                         *)
(* Every awaited FirestoreClient call is one step.  A handler that makes   *)
(* several such calls is a process that moves through them one step at a   *)
(* time.  Spec runs the handlers one after another, over all the inputs;   *)
(* SpecRace interleaves the store calls of two handlers in flight (two     *)
(* requests, or two server instances on one Firestore).                    *)
(*                                                                         *)
(* Time is counted in ticks of 1/TickRes second, so that time.time() has a *)
(* fractional part and int(time.time()) truncates it.  In Spec and in      *)
(* SpecRace the clock does not advance while a handler is between two of   *)
(* its store calls; in SpecReaper, where cleanup_expired_data runs         *)
(* alongside one other handler at a time, it advances at any point.        *)
(***************************************************************************)
EXTENDS Integers, Sequences, FiniteSets, TLC

\* ---------------------------------------------------------------- bounds
MaxFlows  == 2      \* authorize calls in a run
MaxCodes  == 2      \* authorization codes minted in a run
MaxTokens == 2      \* access tokens minted in a run
MaxTicks  == 1      \* clock advances in a run
TickRes   == 2      \* clock ticks per second

\* ------------------------------------------------------ program constants
CodeTTL         == 300      \* time.time() + 300
TokenTTL        == 3600     \* int(time.time()) + 3600
ExpiresIn       == 3600     \* OAuthToken.expires_in
HttpBadRequest  == 400      \* HTTPException(400, "Invalid state parameter")
HttpUnauthorized == 401     \* HTTPException(401, "Invalid credentials")

\* SimpleAuthSettings (simple_auth_provider.py), the single demo identity
DemoUsername == "demo"
DemoPassword == "demo123"
McpScope     == "user"

\* Python's None, for the optional str fields and parameters
None == "<None>"

\* ------------------------------------------------------------ input sets
Procs     == {1, 2}
ClientIds == {"c1", "c2"}
\* the state values callers supply themselves (params.state)
SuppliedStates == {"s1"}
\* the (username, password) pairs posted to the callback
Credentials == {<<DemoUsername, DemoPassword>>, <<DemoUsername, "wrong">>,
                <<"mallory", DemoPassword>>}
UnknownToken == "unknown_token"
UnknownCode  == "unknown_code"

\* The request parameters an authorize call may carry besides the state
\* (AuthorizationParams: redirect_uri, code_challenge,
\* redirect_uri_provided_explicitly, resource).
ParamsOf(c) ==
    IF c = "c1"
    THEN [redirect_uri |-> "https://app/cb", code_challenge |-> "abc",
          redirect_uri_provided_explicitly |-> TRUE, resource |-> None]
    ELSE [redirect_uri |-> "https://other/cb", code_challenge |-> "xyz",
          redirect_uri_provided_explicitly |-> FALSE, resource |-> "https://rs/mcp"]

VARIABLES
    clients,        \* collection oauth_clients: client_id -> document
    tokens,         \* collection oauth_tokens:  token     -> document
    auth_codes,     \* collection auth_codes:    code      -> document
    oauth_state,    \* collection oauth_state:   state     -> document
    user_data,      \* collection user_data:     key       -> document
    now,            \* time.time(), in ticks
    nticks,         \* number of clock advances so far
    procs,          \* the handlers in flight: position and locals
    last,           \* the call that completed most recently, with its result
    loaded,         \* AuthorizationCode objects returned by load_authorization_code
    flows,          \* history: the authorize calls in order, state and parameters
    flowOf,         \* for each FlowState stored, the authorize call that wrote it
    codeLog,        \* history: for each code minted, in order, its flow
    tokenLog,       \* history: for each token minted, in order, its code
    deleted         \* history: the keys whose document has been deleted

vars == <<clients, tokens, auth_codes, oauth_state, user_data, now, nticks,
          procs, last, loaded, flows, flowOf, codeLog, tokenLog, deleted>>

store == <<clients, tokens, auth_codes, oauth_state, user_data>>

\* ------------------------------------------------------- Firestore documents
\* collection.document(k).get(): doc.exists
Exists(coll, k) == k \in DOMAIN coll

\* collection.document(k).set(d): creates or overwrites
DocSet(coll, k, d) == [x \in DOMAIN coll \cup {k} |-> IF x = k THEN d ELSE coll[x]]

\* collection.document(k).delete(): no error when the document is absent
DocDelete(coll, k) == [x \in DOMAIN coll \ {k} |-> coll[x]]

EmptyColl == [x \in {} |-> None]

\* ------------------------------------------------------------------ values
\* secrets.token_hex: a value never drawn before
CodeKey(i)  == "mcp_code" \o ToString(i)
TokenKey(i) == "mcp_token" \o ToString(i)
NewCode  == CodeKey(Len(codeLog) + 1)
NewToken == TokenKey(Len(tokenLog) + 1)

IssuedCodes  == {CodeKey(i) : i \in 1..Len(codeLog)}
IssuedTokens == {TokenKey(i) : i \in 1..Len(tokenLog)}

StateKey(i) == "state" \o ToString(i)
NewState == StateKey(Len(flows) + 1)
\* the states a callback may name: supplied by a caller, or generated so far
KnownStates == SuppliedStates \cup {StateKey(i) : i \in 1..Len(flows)}

\* f"user_{secrets.token_hex(8)}": nothing reads it or relies on it being new
NewUserId == "user_hex"

\* str(bool) and the comparison == "True" that reads it back
StrBool(b) == IF b THEN "True" ELSE "False"
ParseBool(s) == s = "True"

\* int(time.time()), in ticks
IntTime(t) == (t \div TickRes) * TickRes

\* " ".join(scopes)
RECURSIVE JoinScopes(_)
JoinScopes(s) ==
    IF Len(s) = 0 THEN ""
    ELSE IF Len(s) = 1 THEN s[1]
    ELSE s[1] \o " " \o JoinScopes(Tail(s))

\* variant of Expired: a document is already expired at its expiry instant
ExpiredInclusive(doc, t) == doc.expires_at <= t

\* code_data.get("expires_at", 0) < time.time()
Expired(doc, t) == doc.expires_at < t

\* the keys of flow state, codes and tokens whose document a step deletes
Gone ==
    (DOMAIN oauth_state \ DOMAIN oauth_state')
        \cup (DOMAIN auth_codes \ DOMAIN auth_codes')
        \cup (DOMAIN tokens \ DOMAIN tokens')

\* the counts of the cleanup_expired_data that returned just before a sweep
\* was started, if one did
NoSweep == [kind |-> "none"]
JustSwept == IF last.op = "cleanup_expired_data" THEN last.ret ELSE NoSweep

Idle == [pc |-> "idle"]
Quiet == \A p \in Procs : procs[p].pc = "idle"
NoCall == [op |-> "none"]

\* the five collections and the clock, as a call finds them
Snapshot ==
    [clients |-> clients, tokens |-> tokens, auth_codes |-> auth_codes,
     oauth_state |-> oauth_state, user_data |-> user_data, now |-> now]

\* what a handler of several store calls keeps of the store it started on,
\* when it keeps nothing: with handlers interleaved, only the single-call
\* handlers and the failures at the first call record what they found
NotKept == [kept |-> FALSE]

\* the request slot a new multi-call handler takes: slots are interchangeable,
\* so it is always the first free one
FreeProc ==
    IF \E p \in Procs : procs[p].pc = "idle"
    THEN CHOOSE p \in Procs :
            procs[p].pc = "idle" /\ \A q \in Procs : procs[q].pc = "idle" => p <= q
    ELSE CHOOSE p \in Procs : TRUE

Init ==
    /\ clients = EmptyColl
    /\ tokens = EmptyColl
    /\ auth_codes = EmptyColl
    /\ oauth_state = EmptyColl
    /\ user_data = EmptyColl
    /\ now = 0
    /\ nticks = 0
    /\ procs = [p \in Procs |-> Idle]
    /\ last = NoCall
    /\ loaded = {}
    /\ flows = <<>>
    /\ flowOf = EmptyColl
    /\ codeLog = <<>>
    /\ tokenLog = <<>>
    /\ deleted = {}


\* ------------------------------------------------------------ results
Nothing == [kind |-> "none"]
Some(d) == [kind |-> "some", val |-> d]
Ok == [kind |-> "ok"]
HttpError(status) == [kind |-> "error", status |-> status]
InvalidCode == [kind |-> "error", error |-> "Invalid authorization code"]

\* ------------------------------------------------- FirestoreClient reads
\* variant of GetToken: a token is no longer returned at its expiry instant
GetTokenStrictlyBefore(t) ==
    IF ~Exists(tokens, t) THEN Nothing
    ELSE IF tokens[t].expires_at <= now THEN Nothing
    ELSE Some(tokens[t])

\* get_token: the returned dict, or None when absent or expired
GetToken(t) ==
    IF ~Exists(tokens, t) THEN Nothing
    ELSE IF Expired(tokens[t], now) THEN Nothing
    ELSE Some(tokens[t])

\* variant of TokensAfterGet: the read leaves an expired token in place
TokensAfterGetKeeps(t) == tokens

\* get_token: the tokens collection after the read (an expired token is deleted)
TokensAfterGet(t) ==
    IF Exists(tokens, t) /\ Expired(tokens[t], now) THEN DocDelete(tokens, t)
    ELSE tokens

\* variant of GetAuthCode: the expiry is not looked at
GetAuthCodeIgnoresExpiry(c) ==
    IF ~Exists(auth_codes, c) THEN Nothing ELSE Some(auth_codes[c])

\* get_auth_code: the returned dict, or None when absent or expired
GetAuthCode(c) ==
    IF ~Exists(auth_codes, c) THEN Nothing
    ELSE IF Expired(auth_codes[c], now) THEN Nothing
    ELSE Some(auth_codes[c])

\* variant of CodesAfterGet: the read deletes the code whether expired or not
CodesAfterGetConsumes(c) == DocDelete(auth_codes, c)

\* get_auth_code: the auth_codes collection after the read
CodesAfterGet(c) ==
    IF Exists(auth_codes, c) /\ Expired(auth_codes[c], now) THEN DocDelete(auth_codes, c)
    ELSE auth_codes

\* get_state: doc.to_dict() if doc.exists else None
GetState(s) == IF Exists(oauth_state, s) THEN Some(oauth_state[s]) ELSE Nothing

\* variant of DeleteToken: the delete is lost
DeleteTokenLost(t) == tokens

\* delete_token
DeleteToken(t) == DocDelete(tokens, t)

\* variant of DeleteAuthCode: the delete is lost
DeleteAuthCodeLost(c) == auth_codes

\* delete_auth_code
DeleteAuthCode(c) == DocDelete(auth_codes, c)

\* variant of DeleteState: the delete is lost
DeleteStateLost(s) == oauth_state

\* delete_state
DeleteState(s) == DocDelete(oauth_state, s)

\* ------------------------------------------------------- single-call handlers
\* register_client(client_info)
RegisterClient(c) ==
    /\ clients' = DocSet(clients, c, [client_id |-> c])
    /\ last' = [op |-> "register_client", client_id |-> c, ret |-> Ok, pre |-> Snapshot]
    /\ UNCHANGED <<tokens, auth_codes, oauth_state, user_data, now, nticks, procs,
                   loaded, flows, flowOf, codeLog, tokenLog>>
    /\ UNCHANGED deleted

\* the FlowState document authorize writes
StateData(c, params) ==
    [redirect_uri |-> params.redirect_uri,
     code_challenge |-> params.code_challenge,
     redirect_uri_provided_explicitly |-> StrBool(params.redirect_uri_provided_explicitly),
     client_id |-> c,
     resource |-> params.resource]

\* variant of StateFor: the generated state is always the same
StateForStale(pstate, fresh) == IF pstate # None THEN pstate ELSE StateKey(1)

\* state = params.state or secrets.token_hex(16)
StateFor(pstate, fresh) == IF pstate # None THEN pstate ELSE fresh

\* variant of Authorize: a FlowState already stored under the state is kept
AuthorizeKeepsFirst(c, pstate, shape, fresh) ==
    /\ Exists(clients, c)
    /\ Len(flows) < MaxFlows
    /\ LET state == StateFor(pstate, fresh) IN
        /\ oauth_state' = IF Exists(oauth_state, state) THEN oauth_state
                          ELSE DocSet(oauth_state, state, StateData(c, shape))
        /\ flows' = Append(flows, [state |-> state, client_id |-> c, params |-> shape])
        /\ flowOf' = DocSet(flowOf, state, Len(flows) + 1)
        /\ last' = [op |-> "authorize", client_id |-> c, pstate |-> pstate,
                    params |-> shape,
                    ret |-> [kind |-> "url", state |-> state, client_id |-> c],
                    pre |-> Snapshot]
    /\ UNCHANGED <<clients, tokens, auth_codes, user_data, now, nticks, procs, loaded,
                   codeLog, tokenLog>>
    /\ UNCHANGED deleted

\* authorize(client, params), params.state = pstate; fresh is the value
\* secrets.token_hex(16) returns
Authorize(c, pstate, shape, fresh) ==
    /\ Exists(clients, c)
    /\ Len(flows) < MaxFlows
    /\ LET state == StateFor(pstate, fresh) IN
        /\ oauth_state' = DocSet(oauth_state, state, StateData(c, shape))
        /\ flows' = Append(flows, [state |-> state, client_id |-> c, params |-> shape])
        /\ flowOf' = DocSet(flowOf, state, Len(flows) + 1)
        /\ last' = [op |-> "authorize", client_id |-> c, pstate |-> pstate,
                    params |-> shape,
                    ret |-> [kind |-> "url", state |-> state, client_id |-> c],
                    pre |-> Snapshot]
    /\ UNCHANGED <<clients, tokens, auth_codes, user_data, now, nticks, procs, loaded,
                   codeLog, tokenLog>>
    /\ UNCHANGED deleted

\* load_authorization_code(client, authorization_code)
LoadAuthorizationCode(c, code) ==
    /\ auth_codes' = CodesAfterGet(code)
    /\ last' = [op |-> "load_authorization_code", code |-> code,
                ret |-> GetAuthCode(code), pre |-> Snapshot]
    /\ loaded' = IF GetAuthCode(code).kind = "some"
                 THEN loaded \cup {GetAuthCode(code).val} ELSE loaded
    /\ UNCHANGED <<clients, tokens, oauth_state, user_data, now, nticks, procs,
                   flows, flowOf, codeLog, tokenLog>>
    /\ deleted' = deleted \cup Gone

\* load_access_token(token)
LoadAccessToken(t) ==
    /\ tokens' = TokensAfterGet(t)
    /\ last' = [op |-> "load_access_token", token |-> t, ret |-> GetToken(t),
                pre |-> Snapshot]
    /\ UNCHANGED <<clients, auth_codes, oauth_state, user_data, now, nticks, procs,
                   loaded, flows, flowOf, codeLog, tokenLog>>
    /\ deleted' = deleted \cup Gone

\* variant of RevokeToken: revoking a token that is not stored is an error
RevokeTokenStrict(t) ==
    /\ tokens' = DeleteToken(t)
    /\ last' = [op |-> "revoke_token", token |-> t,
                ret |-> IF Exists(tokens, t) THEN Ok ELSE HttpError(HttpBadRequest),
                pre |-> Snapshot]
    /\ UNCHANGED <<clients, auth_codes, oauth_state, user_data, now, nticks, procs,
                   loaded, flows, flowOf, codeLog, tokenLog>>
    /\ deleted' = deleted \cup Gone

\* revoke_token(token, token_type_hint)
RevokeToken(t) ==
    /\ tokens' = DeleteToken(t)
    /\ last' = [op |-> "revoke_token", token |-> t, ret |-> Ok, pre |-> Snapshot]
    /\ UNCHANGED <<clients, auth_codes, oauth_state, user_data, now, nticks, procs,
                   loaded, flows, flowOf, codeLog, tokenLog>>
    /\ deleted' = deleted \cup Gone


\* ------------------------------------------------ handle_simple_callback
\* variant of BadCredentials: the password is not looked at
BadCredentialsUserOnly(username, password) == username # DemoUsername

\* variant of BadCredentials: the username is not looked at
BadCredentialsPasswordOnly(username, password) == password # DemoPassword

\* username != demo_username or password != demo_password
BadCredentials(username, password) ==
    username # DemoUsername \/ password # DemoPassword

\* variant of CodeData: the resource indicator is not carried over
CodeDataNoResource(new_code, state_data, t) ==
    [code |-> new_code,
     client_id |-> state_data.client_id,
     redirect_uri |-> state_data.redirect_uri,
     redirect_uri_provided_explicitly |->
         ParseBool(state_data.redirect_uri_provided_explicitly),
     expires_at |-> t + CodeTTL * TickRes,
     scopes |-> <<McpScope>>,
     code_challenge |-> state_data.code_challenge,
     resource |-> None]

\* variant of CodeData: the code expires the moment it is minted
CodeDataNoLifetime(new_code, state_data, t) ==
    [code |-> new_code,
     client_id |-> state_data.client_id,
     redirect_uri |-> state_data.redirect_uri,
     redirect_uri_provided_explicitly |->
         ParseBool(state_data.redirect_uri_provided_explicitly),
     expires_at |-> t,
     scopes |-> <<McpScope>>,
     code_challenge |-> state_data.code_challenge,
     resource |-> state_data.resource]

\* the AuthorizationCode built from the FlowState, as model_dump(mode="json") stores it
CodeData(new_code, state_data, t) ==
    [code |-> new_code,
     client_id |-> state_data.client_id,
     redirect_uri |-> state_data.redirect_uri,
     redirect_uri_provided_explicitly |->
         ParseBool(state_data.redirect_uri_provided_explicitly),
     expires_at |-> t + CodeTTL * TickRes,
     scopes |-> <<McpScope>>,
     code_challenge |-> state_data.code_challenge,
     resource |-> state_data.resource]

\* the user_data document both handlers write
UserData(username, uid, t) ==
    [username |-> username, user_id |-> uid, authenticated_at |-> t]

\* construct_redirect_uri(redirect_uri, code=new_code, state=state)
Redirect(redirect_uri, code, state) ==
    [kind |-> "redirect", redirect_uri |-> redirect_uri, code |-> code, state |-> state]

\* codes that handlers in flight are about to mint
CodesPending == Cardinality({p \in Procs : procs[p].pc = "cb_set_code"})

\* the state of the callback that was turned away for its credentials just
\* before this one was posted, if one was
JustRefused ==
    IF last.op = "handle_simple_callback" /\ last.ret = HttpError(HttpUnauthorized)
    THEN [kind |-> "refused", state |-> last.state]
    ELSE Nothing

\* variant of CbGetState: a callback turned away for its credentials uses up
\* the FlowState
CbGetStateBurnsState(p, username, password, state, entry) ==
    /\ procs[p].pc = "idle"
    /\ IF GetState(state).kind = "none"
       THEN /\ last' = [op |-> "handle_simple_callback", username |-> username,
                        password |-> password, state |-> state,
                        ret |-> HttpError(HttpBadRequest), pre |-> Snapshot,
                        after |-> JustRefused]
            /\ UNCHANGED <<procs, oauth_state, flowOf>>
       ELSE IF BadCredentials(username, password)
       THEN /\ last' = [op |-> "handle_simple_callback", username |-> username,
                        password |-> password, state |-> state,
                        ret |-> HttpError(HttpUnauthorized), pre |-> Snapshot,
                        after |-> JustRefused]
            /\ oauth_state' = DeleteState(state)
            /\ flowOf' = DocDelete(flowOf, state)
            /\ UNCHANGED procs
       ELSE /\ Len(codeLog) + CodesPending < MaxCodes
            /\ procs' = [procs EXCEPT ![p] =
                           [pc |-> "cb_set_code", username |-> username,
                            password |-> password, state |-> state,
                            state_data |-> GetState(state).val,
                            flow |-> flowOf[state], pre |-> entry,
                            after |-> JustRefused]]
            /\ last' = NoCall
            /\ UNCHANGED <<oauth_state, flowOf>>
    /\ UNCHANGED <<clients, tokens, auth_codes, user_data, now, nticks, loaded,
                   flows, codeLog, tokenLog>>
    /\ deleted' = deleted \cup Gone

\* get_state, then the credential check; entry is what the handler keeps of
\* the store it started on
CbGetState(p, username, password, state, entry) ==
    /\ procs[p].pc = "idle"
    /\ IF GetState(state).kind = "none"
       THEN /\ last' = [op |-> "handle_simple_callback", username |-> username,
                        password |-> password, state |-> state,
                        ret |-> HttpError(HttpBadRequest), pre |-> Snapshot,
                        after |-> JustRefused]
            /\ UNCHANGED procs
       ELSE IF BadCredentials(username, password)
       THEN /\ last' = [op |-> "handle_simple_callback", username |-> username,
                        password |-> password, state |-> state,
                        ret |-> HttpError(HttpUnauthorized), pre |-> Snapshot,
                        after |-> JustRefused]
            /\ UNCHANGED procs
       ELSE /\ Len(codeLog) + CodesPending < MaxCodes
            /\ procs' = [procs EXCEPT ![p] =
                           [pc |-> "cb_set_code", username |-> username,
                            password |-> password, state |-> state,
                            state_data |-> GetState(state).val,
                            flow |-> flowOf[state], pre |-> entry,
                            after |-> JustRefused]]
            /\ last' = NoCall
    /\ UNCHANGED <<store, now, nticks, loaded, flows, flowOf, codeLog, tokenLog>>
    /\ UNCHANGED deleted

\* new_code, the AuthorizationCode, set_auth_code
CbSetCode(p) ==
    /\ procs[p].pc = "cb_set_code"
    /\ LET code_data == CodeData(NewCode, procs[p].state_data, now) IN
        /\ auth_codes' = DocSet(auth_codes, NewCode, code_data)
        /\ codeLog' = Append(codeLog, procs[p].flow)
        /\ procs' = [procs EXCEPT ![p] =
                       [pc |-> "cb_set_user", username |-> procs[p].username,
                        password |-> procs[p].password, state |-> procs[p].state,
                        state_data |-> procs[p].state_data, new_code |-> NewCode,
                        pre |-> procs[p].pre, after |-> procs[p].after]]
    /\ UNCHANGED <<clients, tokens, oauth_state, user_data, now, nticks, last, loaded,
                   flows, flowOf, tokenLog>>
    /\ UNCHANGED deleted

\* set_user_data(username, user_data)
CbSetUser(p) ==
    /\ procs[p].pc = "cb_set_user"
    /\ user_data' = DocSet(user_data, procs[p].username,
                           UserData(procs[p].username, NewUserId, now))
    /\ procs' = [procs EXCEPT ![p].pc = "cb_del_state"]
    /\ UNCHANGED <<clients, tokens, auth_codes, oauth_state, now, nticks, last, loaded,
                   flows, flowOf, codeLog, tokenLog>>
    /\ UNCHANGED deleted

\* delete_state(state), return the redirect
CbDelState(p) ==
    /\ procs[p].pc = "cb_del_state"
    /\ oauth_state' = DeleteState(procs[p].state)
    /\ flowOf' = DocDelete(flowOf, procs[p].state)
    /\ last' = [op |-> "handle_simple_callback", username |-> procs[p].username,
                password |-> procs[p].password, state |-> procs[p].state,
                ret |-> Redirect(procs[p].state_data.redirect_uri, procs[p].new_code,
                                 procs[p].state),
                pre |-> procs[p].pre, after |-> procs[p].after]
    /\ procs' = [procs EXCEPT ![p] = Idle]
    /\ UNCHANGED <<clients, tokens, auth_codes, user_data, now, nticks, loaded,
                   flows, codeLog, tokenLog>>
    /\ deleted' = deleted \cup Gone

\* ------------------------------------------- exchange_authorization_code
\* variant of TokenData: the time is not truncated to whole seconds
TokenDataExact(mcp_token, client_id, authorization_code, t) ==
    [token |-> mcp_token,
     client_id |-> client_id,
     scopes |-> authorization_code.scopes,
     expires_at |-> t + TokenTTL * TickRes,
     resource |-> authorization_code.resource]

\* the AccessToken, as model_dump(mode="json") stores it
TokenData(mcp_token, client_id, authorization_code, t) ==
    [token |-> mcp_token,
     client_id |-> client_id,
     scopes |-> authorization_code.scopes,
     expires_at |-> IntTime(t) + TokenTTL * TickRes,
     resource |-> authorization_code.resource]

\* the OAuthToken returned
BearerToken(mcp_token, authorization_code) ==
    [kind |-> "token", access_token |-> mcp_token, token_type |-> "Bearer",
     expires_in |-> ExpiresIn, scope |-> JoinScopes(authorization_code.scopes)]

\* tokens that handlers in flight are about to mint
TokensPending == Cardinality({p \in Procs : procs[p].pc = "ex_set_token"})

\* variant of ExGetCode: a code presented by a client other than the one it
\* was issued to is refused
ExGetCodeChecksClient(p, c, ac, entry) ==
    /\ procs[p].pc = "idle"
    /\ Exists(clients, c)
    /\ auth_codes' = CodesAfterGet(ac.code)
    /\ IF GetAuthCode(ac.code).kind = "none" \/ ac.client_id # c
       THEN /\ last' = [op |-> "exchange_authorization_code", client_id |-> c,
                        code |-> ac.code, ret |-> InvalidCode, pre |-> Snapshot]
            /\ UNCHANGED procs
       ELSE /\ Len(tokenLog) + TokensPending < MaxTokens
            /\ procs' = [procs EXCEPT ![p] =
                           [pc |-> "ex_set_token", client_id |-> c,
                            authorization_code |-> ac, pre |-> entry]]
            /\ UNCHANGED last
    /\ UNCHANGED <<clients, tokens, oauth_state, user_data, now, nticks, loaded,
                   flows, flowOf, codeLog, tokenLog>>
    /\ deleted' = deleted \cup Gone

\* variant of ExGetCode: the code is deleted as soon as it has been read
ExGetCodeDeletesFirst(p, c, ac, entry) ==
    /\ procs[p].pc = "idle"
    /\ Exists(clients, c)
    /\ auth_codes' = DocDelete(auth_codes, ac.code)
    /\ IF GetAuthCode(ac.code).kind = "none"
       THEN /\ last' = [op |-> "exchange_authorization_code", client_id |-> c,
                        code |-> ac.code, ret |-> InvalidCode, pre |-> Snapshot]
            /\ UNCHANGED procs
       ELSE /\ Len(tokenLog) + TokensPending < MaxTokens
            /\ procs' = [procs EXCEPT ![p] =
                           [pc |-> "ex_set_token", client_id |-> c,
                            authorization_code |-> ac, pre |-> entry]]
            /\ UNCHANGED last
    /\ UNCHANGED <<clients, tokens, oauth_state, user_data, now, nticks, loaded,
                   flows, flowOf, codeLog, tokenLog>>
    /\ deleted' = deleted \cup Gone

\* get_auth_code(authorization_code.code): "Verify code exists"
ExGetCode(p, c, ac, entry) ==
    /\ procs[p].pc = "idle"
    /\ Exists(clients, c)
    /\ auth_codes' = CodesAfterGet(ac.code)
    /\ IF GetAuthCode(ac.code).kind = "none"
       THEN /\ last' = [op |-> "exchange_authorization_code", client_id |-> c,
                        code |-> ac.code, ret |-> InvalidCode, pre |-> Snapshot]
            /\ UNCHANGED procs
       ELSE /\ Len(tokenLog) + TokensPending < MaxTokens
            /\ procs' = [procs EXCEPT ![p] =
                           [pc |-> "ex_set_token", client_id |-> c,
                            authorization_code |-> ac, pre |-> entry]]
            /\ UNCHANGED last
    /\ UNCHANGED <<clients, tokens, oauth_state, user_data, now, nticks, loaded,
                   flows, flowOf, codeLog, tokenLog>>
    /\ deleted' = deleted \cup Gone

\* variant of ExSetToken: the code is looked up again before the token is stored
ExSetTokenRechecks(p) ==
    /\ procs[p].pc = "ex_set_token"
    /\ IF Exists(auth_codes, procs[p].authorization_code.code)
       THEN LET token_data == TokenData(NewToken, procs[p].client_id,
                                        procs[p].authorization_code, now) IN
            /\ tokens' = DocSet(tokens, NewToken, token_data)
            /\ tokenLog' = Append(tokenLog, procs[p].authorization_code.code)
            /\ procs' = [procs EXCEPT ![p] =
                           [pc |-> "ex_set_user", client_id |-> procs[p].client_id,
                            authorization_code |-> procs[p].authorization_code,
                            mcp_token |-> NewToken, pre |-> procs[p].pre]]
            /\ UNCHANGED last
       ELSE /\ last' = [op |-> "exchange_authorization_code",
                        client_id |-> procs[p].client_id,
                        code |-> procs[p].authorization_code.code,
                        ret |-> InvalidCode, pre |-> procs[p].pre]
            /\ procs' = [procs EXCEPT ![p] = Idle]
            /\ UNCHANGED <<tokens, tokenLog>>
    /\ UNCHANGED <<clients, auth_codes, oauth_state, user_data, now, nticks,
                   loaded, flows, flowOf, codeLog>>
    /\ UNCHANGED deleted

\* mcp_token, the AccessToken, set_token
ExSetToken(p) ==
    /\ procs[p].pc = "ex_set_token"
    /\ LET token_data == TokenData(NewToken, procs[p].client_id,
                                   procs[p].authorization_code, now) IN
        /\ tokens' = DocSet(tokens, NewToken, token_data)
        /\ tokenLog' = Append(tokenLog, procs[p].authorization_code.code)
        /\ procs' = [procs EXCEPT ![p] =
                       [pc |-> "ex_set_user", client_id |-> procs[p].client_id,
                        authorization_code |-> procs[p].authorization_code,
                        mcp_token |-> NewToken, pre |-> procs[p].pre]]
    /\ UNCHANGED <<clients, auth_codes, oauth_state, user_data, now, nticks, last,
                   loaded, flows, flowOf, codeLog>>
    /\ UNCHANGED deleted

\* set_user_data(mcp_token, user_data)
ExSetUser(p) ==
    /\ procs[p].pc = "ex_set_user"
    /\ user_data' = DocSet(user_data, procs[p].mcp_token,
                           UserData(DemoUsername, NewUserId, now))
    /\ procs' = [procs EXCEPT ![p].pc = "ex_del_code"]
    /\ UNCHANGED <<clients, tokens, auth_codes, oauth_state, now, nticks, last, loaded,
                   flows, flowOf, codeLog, tokenLog>>
    /\ UNCHANGED deleted

\* delete_auth_code(authorization_code.code), return the OAuthToken
ExDelCode(p) ==
    /\ procs[p].pc = "ex_del_code"
    /\ auth_codes' = DeleteAuthCode(procs[p].authorization_code.code)
    /\ last' = [op |-> "exchange_authorization_code", client_id |-> procs[p].client_id,
                code |-> procs[p].authorization_code.code,
                ret |-> BearerToken(procs[p].mcp_token, procs[p].authorization_code),
                pre |-> procs[p].pre]
    /\ procs' = [procs EXCEPT ![p] = Idle]
    /\ UNCHANGED <<clients, tokens, oauth_state, user_data, now, nticks, loaded,
                   flows, flowOf, codeLog, tokenLog>>
    /\ deleted' = deleted \cup Gone

\* -------------------------------------------------- cleanup_expired_data
\* variant of ExpiredTokens: the query also returns the tokens expiring now
ExpiredTokensInclusive == {t \in DOMAIN tokens : tokens[t].expires_at <= now}

\* tokens.where("expires_at", "<", now).stream()
ExpiredTokens == {t \in DOMAIN tokens : tokens[t].expires_at < now}

\* variant of ExpiredCodes: the query also returns the codes expiring now
ExpiredCodesInclusive == {c \in DOMAIN auth_codes : auth_codes[c].expires_at <= now}

\* auth_codes.where("expires_at", "<", now).stream()
ExpiredCodes == {c \in DOMAIN auth_codes : auth_codes[c].expires_at < now}

\* cleanup_expired_tokens: the query
ClQueryTokens(p, entry) ==
    /\ procs[p].pc = "idle"
    /\ procs' = [procs EXCEPT ![p] =
                   [pc |-> "cl_tokens", pending |-> ExpiredTokens, tokens_cleaned |-> 0,
                    pre |-> entry, after |-> JustSwept]]
    /\ last' = NoCall
    /\ UNCHANGED <<store, now, nticks, loaded, flows, flowOf, codeLog, tokenLog>>
    /\ UNCHANGED deleted

\* variant of ClDeleteToken: the document is counted but not deleted
ClDeleteTokenKeeps(p, t) ==
    /\ procs[p].pc = "cl_tokens"
    /\ t \in procs[p].pending
    /\ procs' = [procs EXCEPT ![p].pending = @ \ {t},
                              ![p].tokens_cleaned = @ + 1]
    /\ UNCHANGED <<store, now, nticks, last, loaded, flows, flowOf, codeLog,
                   tokenLog, deleted>>

\* cleanup_expired_tokens: doc.reference.delete(); count += 1
ClDeleteToken(p, t) ==
    /\ procs[p].pc = "cl_tokens"
    /\ t \in procs[p].pending
    /\ tokens' = DocDelete(tokens, t)
    /\ procs' = [procs EXCEPT ![p].pending = @ \ {t},
                              ![p].tokens_cleaned = @ + 1]
    /\ UNCHANGED <<clients, auth_codes, oauth_state, user_data, now, nticks, last,
                   loaded, flows, flowOf, codeLog, tokenLog>>
    /\ deleted' = deleted \cup Gone

\* variant of ClQueryCodes: the sweep also clears the flow state
ClQueryCodesSweepsState(p) ==
    /\ procs[p].pc = "cl_tokens"
    /\ procs[p].pending = {}
    /\ procs' = [procs EXCEPT ![p] =
                   [pc |-> "cl_codes", pending |-> ExpiredCodes,
                    tokens_cleaned |-> procs[p].tokens_cleaned, codes_cleaned |-> 0,
                    pre |-> procs[p].pre, after |-> procs[p].after]]
    /\ oauth_state' = EmptyColl
    /\ flowOf' = EmptyColl
    /\ UNCHANGED <<clients, tokens, auth_codes, user_data, now, nticks, last, loaded,
                   flows, codeLog, tokenLog>>
    /\ deleted' = deleted \cup Gone

\* cleanup_expired_auth_codes: the query
ClQueryCodes(p) ==
    /\ procs[p].pc = "cl_tokens"
    /\ procs[p].pending = {}
    /\ procs' = [procs EXCEPT ![p] =
                   [pc |-> "cl_codes", pending |-> ExpiredCodes,
                    tokens_cleaned |-> procs[p].tokens_cleaned, codes_cleaned |-> 0,
                    pre |-> procs[p].pre, after |-> procs[p].after]]
    /\ UNCHANGED <<store, now, nticks, last, loaded, flows, flowOf, codeLog, tokenLog>>
    /\ UNCHANGED deleted

\* cleanup_expired_auth_codes: doc.reference.delete(); count += 1
ClDeleteCode(p, c) ==
    /\ procs[p].pc = "cl_codes"
    /\ c \in procs[p].pending
    /\ auth_codes' = DocDelete(auth_codes, c)
    /\ procs' = [procs EXCEPT ![p].pending = @ \ {c},
                              ![p].codes_cleaned = @ + 1]
    /\ UNCHANGED <<clients, tokens, oauth_state, user_data, now, nticks, last, loaded,
                   flows, flowOf, codeLog, tokenLog>>
    /\ deleted' = deleted \cup Gone

\* cleanup_expired_data: return the counts
ClReturn(p) ==
    /\ procs[p].pc = "cl_codes"
    /\ procs[p].pending = {}
    /\ last' = [op |-> "cleanup_expired_data",
                ret |-> [kind |-> "counts", tokens |-> procs[p].tokens_cleaned,
                         auth_codes |-> procs[p].codes_cleaned],
                pre |-> procs[p].pre, after |-> procs[p].after]
    /\ procs' = [procs EXCEPT ![p] = Idle]
    /\ UNCHANGED <<store, now, nticks, loaded, flows, flowOf, codeLog, tokenLog>>
    /\ UNCHANGED deleted

\* ------------------------------------------ Resource Server: the verifier
\* create_resource_server hands IntrospectionTokenVerifier the introspection
\* endpoint, server_url and validate_resource = oauth_strict (False unless
\* set): the configurations of a Resource Server, one of them of a second
\* Resource Server on the same Authorization Server
RsConfigs ==
    {[server_url |-> "https://rs/mcp", validate_resource |-> FALSE],
     [server_url |-> "https://rs/mcp", validate_resource |-> TRUE],
     [server_url |-> "https://rs2/mcp", validate_resource |-> TRUE]}

\* how the introspection call ends: with a response, without reaching the
\* Authorization Server, or timed out after reaching it
IntrospectionOutcomes == {"response", "unreachable", "timeout"}

\* the introspection endpoint of the Authorization Server: load_access_token,
\* then {active, scope, resource, client_id}
Introspect(t) ==
    IF GetToken(t).kind = "some"
    THEN [active |-> TRUE, scope |-> JoinScopes(GetToken(t).val.scopes),
          resource |-> GetToken(t).val.resource,
          client_id |-> GetToken(t).val.client_id]
    ELSE [active |-> FALSE]

Invalid == [kind |-> "invalid"]

\* variant of Unanswered: a failed introspection call lets the token through
UnansweredOpen == [kind |-> "valid", scope |-> McpScope, resource |-> None]

\* the verdict when the introspection call fails or times out
Unanswered == Invalid

\* variant of Verdict: the resource is never compared
VerdictLenient(resp, cfg) ==
    IF ~resp.active THEN Invalid
    ELSE [kind |-> "valid", scope |-> resp.scope, resource |-> resp.resource]

\* the verdict on an introspection response
Verdict(resp, cfg) ==
    IF ~resp.active THEN Invalid
    ELSE IF cfg.validate_resource /\ resp.resource # cfg.server_url THEN Invalid
    ELSE [kind |-> "valid", scope |-> resp.scope, resource |-> resp.resource]

\* verify(token) of a verifier configured as cfg; the Authorization Server
\* handles the request unless it is never reached
Verify(t, outcome, cfg) ==
    /\ tokens' = IF outcome = "unreachable" THEN tokens ELSE TokensAfterGet(t)
    /\ last' = [op |-> "verify", token |-> t, outcome |-> outcome, cfg |-> cfg,
                ret |-> IF outcome = "response" THEN Verdict(Introspect(t), cfg)
                        ELSE Unanswered,
                pre |-> Snapshot]
    /\ UNCHANGED <<clients, auth_codes, oauth_state, user_data, now, nticks, procs,
                   loaded, flows, flowOf, codeLog, tokenLog>>
    /\ deleted' = deleted \cup Gone

\* ------------------------------------------------------------------ time
\* the clock advances by the lifetime of a code, by the lifetime of a token, or
\* by one tick more than that
Jumps == {CodeTTL * TickRes, TokenTTL * TickRes, TokenTTL * TickRes + 1}

\* the clock advances
Tick(d) ==
    /\ nticks < MaxTicks
    /\ now' = now + d
    /\ nticks' = nticks + 1
    /\ UNCHANGED <<store, procs, last, loaded, flows, flowOf, codeLog, tokenLog>>
    /\ UNCHANGED deleted

\* the response of the completed call has been delivered
Respond ==
    /\ last # NoCall
    /\ last' = NoCall
    /\ UNCHANGED <<store, now, nticks, procs, loaded, flows, flowOf, codeLog, tokenLog>>
    /\ UNCHANGED deleted

\* ------------------------------------------------------- specifications
\* A call's result stays in last until Respond delivers it, and nothing else
\* happens in between: every result is seen in the very state the call left.
Go == last = NoCall

\* one handler at a time: a request is taken up when none is in flight
Turn == Go /\ Quiet

\* cleanup_expired_data may also be called again the moment it has returned
Again == Quiet /\ (Go \/ last.op = "cleanup_expired_data")

\* the login form may also be posted again the moment a callback has been
\* turned away for its credentials
Retry == Quiet /\ (Go \/ JustRefused # Nothing)

\* requests are handled one after another
Next ==
    \/ \E c \in ClientIds : Turn /\ RegisterClient(c)
    \/ \E c \in ClientIds, pstate \in SuppliedStates \cup {None} :
          Turn /\ Authorize(c, pstate, ParamsOf(c), NewState)
    \/ \E cred \in Credentials, s \in KnownStates :
          Retry /\ CbGetState(FreeProc, cred[1], cred[2], s, Snapshot)
    \/ \E p \in Procs : Go /\ CbSetCode(p)
    \/ \E p \in Procs : Go /\ CbSetUser(p)
    \/ \E p \in Procs : Go /\ CbDelState(p)
    \/ \E c \in ClientIds, code \in IssuedCodes \cup {UnknownCode} :
          Turn /\ LoadAuthorizationCode(c, code)
    \/ \E c \in ClientIds, ac \in loaded : Turn /\ ExGetCode(FreeProc, c, ac, Snapshot)
    \/ \E p \in Procs : Go /\ ExSetToken(p)
    \/ \E p \in Procs : Go /\ ExSetUser(p)
    \/ \E p \in Procs : Go /\ ExDelCode(p)
    \/ \E t \in IssuedTokens \cup {UnknownToken} : Turn /\ LoadAccessToken(t)
    \/ \E t \in IssuedTokens \cup {UnknownToken} : Turn /\ RevokeToken(t)
    \/ Again /\ ClQueryTokens(FreeProc, Snapshot)
    \/ \E p \in Procs, t \in IssuedTokens : Go /\ ClDeleteToken(p, t)
    \/ \E p \in Procs : Go /\ ClQueryCodes(p)
    \/ \E p \in Procs, c \in IssuedCodes : Go /\ ClDeleteCode(p, c)
    \/ \E p \in Procs : Go /\ ClReturn(p)
    \/ \E d \in Jumps : Turn /\ Tick(d)
    \/ Respond

Spec == Init /\ [][Next]_vars

\* the clients whose requests race
RaceClients == {"c2"}
\* and the params.state of their authorize calls: none, the state is generated
RaceStates == {None}

\* two handlers are in flight at once, interleaved at every store call; the
\* multi-call handlers keep no snapshot of the store they started on
NextRace ==
    \/ \E c \in RaceClients : Go /\ RegisterClient(c)
    \/ \E c \in RaceClients, pstate \in RaceStates :
          Go /\ Authorize(c, pstate, ParamsOf(c), NewState)
    \/ \E cred \in Credentials, s \in KnownStates :
          Go /\ CbGetState(FreeProc, cred[1], cred[2], s, NotKept)
    \/ \E p \in Procs : Go /\ CbSetCode(p)
    \/ \E p \in Procs : Go /\ CbSetUser(p)
    \/ \E p \in Procs : Go /\ CbDelState(p)
    \/ \E c \in RaceClients, code \in IssuedCodes \cup {UnknownCode} :
          Go /\ LoadAuthorizationCode(c, code)
    \/ \E c \in RaceClients, ac \in loaded : Go /\ ExGetCode(FreeProc, c, ac, NotKept)
    \/ \E p \in Procs : Go /\ ExSetToken(p)
    \/ \E p \in Procs : Go /\ ExSetUser(p)
    \/ \E p \in Procs : Go /\ ExDelCode(p)
    \/ \E t \in IssuedTokens \cup {UnknownToken} : Go /\ LoadAccessToken(t)
    \/ \E t \in IssuedTokens \cup {UnknownToken} : Go /\ RevokeToken(t)
    \/ (Go \/ Again) /\ ClQueryTokens(FreeProc, NotKept)
    \/ \E p \in Procs, t \in IssuedTokens : Go /\ ClDeleteToken(p, t)
    \/ \E p \in Procs : Go /\ ClQueryCodes(p)
    \/ \E p \in Procs, c \in IssuedCodes : Go /\ ClDeleteCode(p, c)
    \/ \E p \in Procs : Go /\ ClReturn(p)
    \/ \E d \in Jumps : Turn /\ Tick(d)
    \/ Respond

SpecRace == Init /\ [][NextRace]_vars

\* a cleanup_expired_data is in flight / no other handler is
Sweeping(p) == procs[p].pc \in {"cl_tokens", "cl_codes"}
NoReaper == \A p \in Procs : ~Sweeping(p)
NoTraffic == \A p \in Procs : procs[p].pc = "idle" \/ Sweeping(p)

\* one cleanup_expired_data runs alongside the other handlers, which are taken
\* one at a time, and the clock advances at any point, also while a handler
\* is between two of its store calls
NextReaper ==
    \/ \E c \in RaceClients : Go /\ NoTraffic /\ RegisterClient(c)
    \/ \E c \in RaceClients, pstate \in RaceStates :
          Go /\ NoTraffic /\ Authorize(c, pstate, ParamsOf(c), NewState)
    \/ \E cred \in Credentials, s \in KnownStates :
          Go /\ NoTraffic /\ CbGetState(FreeProc, cred[1], cred[2], s, NotKept)
    \/ \E p \in Procs : Go /\ CbSetCode(p)
    \/ \E p \in Procs : Go /\ CbSetUser(p)
    \/ \E p \in Procs : Go /\ CbDelState(p)
    \/ \E c \in RaceClients, code \in IssuedCodes \cup {UnknownCode} :
          Go /\ NoTraffic /\ LoadAuthorizationCode(c, code)
    \/ \E c \in RaceClients, ac \in loaded :
          Go /\ NoTraffic /\ ExGetCode(FreeProc, c, ac, NotKept)
    \/ \E p \in Procs : Go /\ ExSetToken(p)
    \/ \E p \in Procs : Go /\ ExSetUser(p)
    \/ \E p \in Procs : Go /\ ExDelCode(p)
    \/ \E t \in IssuedTokens \cup {UnknownToken} :
          Go /\ NoTraffic /\ LoadAccessToken(t)
    \/ \E t \in IssuedTokens \cup {UnknownToken} :
          Go /\ NoTraffic /\ RevokeToken(t)
    \/ Go /\ NoReaper /\ ClQueryTokens(FreeProc, NotKept)
    \/ \E p \in Procs, t \in IssuedTokens : Go /\ ClDeleteToken(p, t)
    \/ \E p \in Procs : Go /\ ClQueryCodes(p)
    \/ \E p \in Procs, c \in IssuedCodes : Go /\ ClDeleteCode(p, c)
    \/ \E p \in Procs : Go /\ ClReturn(p)
    \/ \E d \in Jumps : Go /\ Tick(d)
    \/ Respond

SpecReaper == Init /\ [][NextReaper]_vars

\* the Authorization Server handles its requests one after another, states
\* are generated, no sweep runs, and a Resource Server verifies bearer tokens
NextVerifier ==
    \/ \E c \in ClientIds : Turn /\ RegisterClient(c)
    \/ \E c \in ClientIds, pstate \in RaceStates :
          Turn /\ Authorize(c, pstate, ParamsOf(c), NewState)
    \/ \E cred \in Credentials, s \in KnownStates :
          Turn /\ CbGetState(FreeProc, cred[1], cred[2], s, Snapshot)
    \/ \E p \in Procs : Go /\ CbSetCode(p)
    \/ \E p \in Procs : Go /\ CbSetUser(p)
    \/ \E p \in Procs : Go /\ CbDelState(p)
    \/ \E c \in ClientIds, code \in IssuedCodes \cup {UnknownCode} :
          Turn /\ LoadAuthorizationCode(c, code)
    \/ \E c \in ClientIds, ac \in loaded : Turn /\ ExGetCode(FreeProc, c, ac, Snapshot)
    \/ \E p \in Procs : Go /\ ExSetToken(p)
    \/ \E p \in Procs : Go /\ ExSetUser(p)
    \/ \E p \in Procs : Go /\ ExDelCode(p)
    \/ \E t \in IssuedTokens \cup {UnknownToken} : Turn /\ RevokeToken(t)
    \/ \E t \in IssuedTokens \cup {UnknownToken},
          outcome \in IntrospectionOutcomes, cfg \in RsConfigs :
          Turn /\ Verify(t, outcome, cfg)
    \/ \E d \in Jumps : Turn /\ Tick(d)
    \/ Respond

SpecVerifier == Init /\ [][NextVerifier]_vars

\* =================================================================
\* Properties
\* =================================================================
\* the tokens minted from code c, and the codes minted from flow f
TokensFrom(c) == {i \in 1..Len(tokenLog) : tokenLog[i] = c}
CodesFrom(f) == {i \in 1..Len(codeLog) : codeLog[i] = f}

\* the five collections, now and as a snapshot recorded them
StoreNow ==
    [clients |-> clients, tokens |-> tokens, auth_codes |-> auth_codes,
     oauth_state |-> oauth_state, user_data |-> user_data]
StoreOf(snap) ==
    [clients |-> snap.clients, tokens |-> snap.tokens, auth_codes |-> snap.auth_codes,
     oauth_state |-> snap.oauth_state, user_data |-> snap.user_data]

IsExchange == last.op = "exchange_authorization_code"
IsCallback == last.op = "handle_simple_callback"
IsLoadCode == last.op = "load_authorization_code"
IsLoadToken == last.op = "load_access_token"
IsRevoke == last.op = "revoke_token"

\* C1: with the handlers run one after another, no code ever yields a second
\* token; an exchange that succeeds returns the one token minted from its
\* code; an exchange fails, with the invalid-code error and no change to the
\* tokens, only when the code is not stored or is past its expiry; and a
\* loaded code that is no longer stored has been exchanged or has expired.
\* So the first exchange of an unexpired code succeeds and every later one
\* fails.
C1_ExchangeOnce ==
    /\ \A c \in IssuedCodes : Cardinality(TokensFrom(c)) <= 1
    /\ \A ac \in loaded :
          ~Exists(auth_codes, ac.code) =>
              TokensFrom(ac.code) # {} \/ ac.expires_at < now
    /\ IsExchange /\ last.ret.kind = "token" =>
          \E i \in TokensFrom(last.code) :
              /\ TokenKey(i) = last.ret.access_token
              /\ TokensFrom(last.code) = {i}
    /\ IsExchange /\ last.ret.kind # "token" =>
          /\ last.ret = InvalidCode
          /\ tokens = last.pre.tokens
          /\ \/ ~Exists(last.pre.auth_codes, last.code)
             \/ last.pre.auth_codes[last.code].expires_at < last.pre.now

\* C1 witness: a second exchange of a code that has not yet expired has just
\* failed, after the first one minted its token
C1_SecondExchangeFailed ==
    /\ IsExchange
    /\ last.ret = InvalidCode
    /\ TokensFrom(last.code) # {}
    /\ \E ac \in loaded : ac.code = last.code /\ ac.expires_at >= now

\* C2: an exchange that has read its code always goes on to store a new token
\* of its own and to return it, whether or not the code is still stored: the
\* code is not looked at again after get_auth_code.
C2_ExchangeNeverRechecks ==
    [][\A p \in Procs :
          /\ procs[p].pc = "ex_set_token" /\ procs'[p] # procs[p] =>
                /\ procs'[p].pc = "ex_set_user"
                /\ ~Exists(tokens, procs'[p].mcp_token)
                /\ Exists(tokens', procs'[p].mcp_token)
                /\ tokenLog' = Append(tokenLog, procs[p].authorization_code.code)
          /\ procs[p].pc = "ex_del_code" /\ procs'[p] # procs[p] =>
                /\ last'.ret.kind = "token"
                /\ last'.ret.access_token = procs[p].mcp_token]_vars

\* C2 witness: two exchanges of one code have both completed, the second one
\* just now, and two distinct tokens minted from that code are stored
C2_DoubleSpend ==
    /\ Quiet
    /\ IsExchange
    /\ last.ret.kind = "token"
    /\ \E i, j \in TokensFrom(last.code) :
          /\ i # j
          /\ Exists(tokens, TokenKey(i))
          /\ Exists(tokens, TokenKey(j))

\* C3: with the handlers run one after another, a callback that succeeds
\* leaves no FlowState under its state; a callback that finds no FlowState
\* under its state fails with HTTP 400 and changes nothing; and no FlowState
\* yields a second code.
C3_StateConsumed ==
    /\ IsCallback /\ last.ret.kind = "redirect" =>
          ~Exists(oauth_state, last.state)
    /\ IsCallback /\ last.ret.kind = "error" =>
          (~Exists(last.pre.oauth_state, last.state) =>
              /\ last.ret = HttpError(HttpBadRequest)
              /\ StoreNow = StoreOf(last.pre))
    /\ \A f \in 1..Len(flows) : Cardinality(CodesFrom(f)) <= 1

\* C3 witness: a callback with the right credentials has just failed with
\* HTTP 400 on a generated state from which a code had been minted
C3_ReplayRejected ==
    /\ IsCallback
    /\ last.ret = HttpError(HttpBadRequest)
    /\ last.username = DemoUsername /\ last.password = DemoPassword
    /\ \E f \in 1..Len(flows) : last.state = StateKey(f) /\ CodesFrom(f) # {}

\* C4: at most one authorization code has been minted from a given FlowState
C4_OneCodePerFlowState ==
    \A f \in 1..Len(flows) : Cardinality(CodesFrom(f)) <= 1

\* C5: a read of a token or of a code returns the document exactly when it is
\* stored and not (expires_at < now)
C5_StrictExpiry ==
    /\ IsLoadToken =>
          /\ last.ret.kind = "some" <=>
                /\ Exists(last.pre.tokens, last.token)
                /\ ~(last.pre.tokens[last.token].expires_at < last.pre.now)
          /\ last.ret.kind = "some" => last.ret.val = last.pre.tokens[last.token]
    /\ IsLoadCode =>
          /\ last.ret.kind = "some" <=>
                /\ Exists(last.pre.auth_codes, last.code)
                /\ ~(last.pre.auth_codes[last.code].expires_at < last.pre.now)
          /\ last.ret.kind = "some" => last.ret.val = last.pre.auth_codes[last.code]

\* C5 witness: a code has just been read at the very instant of its expiry, and
\* was returned
C5_CodeReadAtExpiry ==
    /\ IsLoadCode
    /\ last.ret.kind = "some"
    /\ last.ret.val.expires_at = now

\* C6 as stated: load_access_token returns a stored token iff now < expires_at
C6_ValidStrictlyBefore ==
    IsLoadToken /\ Exists(last.pre.tokens, last.token) =>
        (last.ret.kind = "some" <=>
            last.pre.now < last.pre.tokens[last.token].expires_at)

\* C6 amended: load_access_token returns a stored token iff now <= expires_at,
\* so at now = expires_at the token is still returned
C6_ValidUntilExpiry ==
    IsLoadToken /\ Exists(last.pre.tokens, last.token) =>
        (last.ret = Some(last.pre.tokens[last.token]) <=>
            last.pre.now <= last.pre.tokens[last.token].expires_at)

\* C6 witness: a token has just been loaded at the very instant of its expiry
C6_TokenLoadedAtExpiry ==
    /\ IsLoadToken
    /\ last.ret.kind = "some"
    /\ last.ret.val.expires_at = now

\* C7: a read of a stored document that is past its expiry returns absent and
\* deletes exactly that document; a read of a document that is not stored
\* returns absent; a token or code that is not stored is never stored again;
\* and the clock never goes back.
C7_ExpiredReadDeletes ==
    /\ [](IsLoadToken /\ Exists(last.pre.tokens, last.token)
              /\ last.pre.tokens[last.token].expires_at < last.pre.now =>
                  /\ last.ret = Nothing
                  /\ tokens = DocDelete(last.pre.tokens, last.token))
    /\ [](IsLoadCode /\ Exists(last.pre.auth_codes, last.code)
              /\ last.pre.auth_codes[last.code].expires_at < last.pre.now =>
                  /\ last.ret = Nothing
                  /\ auth_codes = DocDelete(last.pre.auth_codes, last.code))
    /\ [](IsLoadToken /\ ~Exists(last.pre.tokens, last.token) => last.ret = Nothing)
    /\ [](IsLoadCode /\ ~Exists(last.pre.auth_codes, last.code) => last.ret = Nothing)
    /\ [][/\ \A t \in IssuedTokens : ~Exists(tokens, t) => ~Exists(tokens', t)
          /\ \A c \in IssuedCodes : ~Exists(auth_codes, c) => ~Exists(auth_codes', c)
          /\ now' >= now]_vars

\* C7 witness: a token past its expiry has just been read: absent was returned
\* and the token is gone
C7_ExpiredTokenRead ==
    /\ IsLoadToken
    /\ Exists(last.pre.tokens, last.token)
    /\ last.pre.tokens[last.token].expires_at < last.pre.now
    /\ last.ret = Nothing
    /\ ~Exists(tokens, last.token)

\* C8 as stated: load_authorization_code leaves all five collections unchanged
C8_LoadCodeReadOnly ==
    IsLoadCode => StoreNow = StoreOf(last.pre)

\* C8 amended: load_authorization_code leaves all five collections unchanged,
\* except that a stored code past its expiry is deleted from auth_codes (and
\* absent is returned)
C8_LoadCodeFrame ==
    IsLoadCode =>
        IF /\ Exists(last.pre.auth_codes, last.code)
           /\ last.pre.auth_codes[last.code].expires_at < last.pre.now
        THEN /\ last.ret = Nothing
             /\ StoreNow = [StoreOf(last.pre) EXCEPT
                               !.auth_codes = DocDelete(@, last.code)]
        ELSE StoreNow = StoreOf(last.pre)

\* C8 witness: load_authorization_code has just deleted an expired code
C8_LoadCodeDeleted ==
    /\ IsLoadCode
    /\ Exists(last.pre.auth_codes, last.code)
    /\ ~Exists(auth_codes, last.code)

\* the resource the authorize call of token number i supplied
CodeIndex(c) == CHOOSE i \in 1..Len(codeLog) : CodeKey(i) = c
SuppliedResource(i) == flows[codeLog[CodeIndex(tokenLog[i])]].params.resource

\* C9: every access token stored, and every token an exchange returns, has
\* the resource that was supplied to the authorize call of its flow, None
\* included; so has every code load_authorization_code returns
C9_ResourceRoundTrip ==
    /\ \A i \in 1..Len(tokenLog) :
          Exists(tokens, TokenKey(i)) =>
              tokens[TokenKey(i)].resource = SuppliedResource(i)
    /\ IsLoadCode /\ last.ret.kind = "some" =>
          last.ret.val.resource = flows[codeLog[CodeIndex(last.code)]].params.resource

\* C9 witness: an exchange has just returned, and a token with a resource and
\* a token without one are both stored
C9_BothResources ==
    /\ IsExchange
    /\ last.ret.kind = "token"
    /\ \E t, u \in DOMAIN tokens :
          tokens[t].resource = None /\ tokens[u].resource # None

\* C10: revoke_token on a token that is not stored returns without error and
\* leaves every collection unchanged
C10_RevokeUnknown ==
    IsRevoke /\ ~Exists(last.pre.tokens, last.token) =>
        /\ last.ret = Ok
        /\ StoreNow = StoreOf(last.pre)

\* C10 witness: revoke_token("unknown_token") has just returned
C10_RevokedUnknown ==
    /\ IsRevoke
    /\ last.token = UnknownToken
    /\ last.ret = Ok

\* C11: revoke_token leaves no document under its token, and records a stored
\* one as deleted; no deleted token is ever stored again; and
\* load_access_token on a deleted token returns absent.  So after a revoke
\* every later load of that token returns absent.
C11_RevokedStaysAbsent ==
    /\ IsRevoke =>
          /\ ~Exists(tokens, last.token)
          /\ Exists(last.pre.tokens, last.token) => last.token \in deleted
    /\ \A t \in deleted : ~Exists(tokens, t)
    /\ IsLoadToken /\ last.token \in deleted => last.ret = Nothing

\* C11 witness: a token that was deleted before any token could have expired,
\* hence revoked while valid, has just been loaded: absent
C11_LoadAfterRevoke ==
    /\ IsLoadToken
    /\ last.token \in deleted
    /\ ~Exists(last.pre.tokens, last.token)
    /\ last.ret = Nothing
    /\ now < TokenTTL * TickRes

IsCleanup == last.op = "cleanup_expired_data"

\* the documents of a collection whose expires_at is not before t, and the
\* keys of those whose expires_at is before t
Unexpired(coll, t) ==
    [k \in {x \in DOMAIN coll : coll[x].expires_at >= t} |-> coll[k]]
ExpiredKeys(coll, t) == {x \in DOMAIN coll : coll[x].expires_at < t}

\* C12: with the handlers run one after another, cleanup_expired_data leaves
\* in tokens and in auth_codes exactly the documents whose expires_at is not
\* before now, unchanged, and returns for each collection the number of
\* documents whose expires_at was before now, which is the number it deleted
C12_SweepExact ==
    IsCleanup =>
        /\ tokens = Unexpired(last.pre.tokens, last.pre.now)
        /\ auth_codes = Unexpired(last.pre.auth_codes, last.pre.now)
        /\ last.ret.tokens = Cardinality(ExpiredKeys(last.pre.tokens, last.pre.now))
        /\ last.ret.auth_codes =
              Cardinality(ExpiredKeys(last.pre.auth_codes, last.pre.now))
        /\ last.ret.tokens = Cardinality(DOMAIN last.pre.tokens \ DOMAIN tokens)
        /\ last.ret.auth_codes =
              Cardinality(DOMAIN last.pre.auth_codes \ DOMAIN auth_codes)

\* C12 witness: a sweep has just deleted an expired code and kept a token
\* whose expires_at is now
C12_SweptOneKeptOne ==
    /\ IsCleanup
    /\ last.ret.auth_codes = 1
    /\ \E t \in DOMAIN tokens : tokens[t].expires_at = now

\* what the read operations can see of the store: the unexpired tokens and
\* codes, and the three collections without expiry
Visible(snap) ==
    [clients |-> snap.clients, oauth_state |-> snap.oauth_state,
     user_data |-> snap.user_data,
     tokens |-> Unexpired(snap.tokens, snap.now),
     auth_codes |-> Unexpired(snap.auth_codes, snap.now)]

\* C13: every document a step of cleanup_expired_data deletes is past its
\* expiry at that moment, and the step changes nothing the other operations
\* can see; and what load_access_token, load_authorization_code and the
\* get_auth_code of an exchange return is decided by the unexpired documents
\* alone.  So no result differs from what it is without the reaper.
C13_ReaperUnobservable ==
    /\ [][\A p \in Procs :
            Sweeping(p) /\ procs'[p] # procs[p] =>
                /\ \A t \in DOMAIN tokens \ DOMAIN tokens' :
                      tokens[t].expires_at < now
                /\ \A c \in DOMAIN auth_codes \ DOMAIN auth_codes' :
                      auth_codes[c].expires_at < now
                /\ Visible(Snapshot)' = Visible(Snapshot)]_vars
    /\ [][\A p \in Procs :
            procs[p].pc = "idle" /\ procs'[p].pc = "ex_set_token" =>
                Exists(Visible(Snapshot).auth_codes,
                       procs'[p].authorization_code.code)]_vars
    /\ [](IsExchange /\ last.ret = InvalidCode =>
              ~Exists(Visible(last.pre).auth_codes, last.code))
    /\ [](IsLoadToken =>
              last.ret = IF Exists(Visible(last.pre).tokens, last.token)
                         THEN Some(last.pre.tokens[last.token]) ELSE Nothing)
    /\ [](IsLoadCode =>
              last.ret = IF Exists(Visible(last.pre).auth_codes, last.code)
                         THEN Some(last.pre.auth_codes[last.code]) ELSE Nothing)

\* C13 witness: the reaper has deleted a code that expired after an exchange,
\* still in flight, had read it
C13_ReapedUnderExchange ==
    \E p, q \in Procs :
        /\ procs[p].pc \in {"ex_set_token", "ex_set_user", "ex_del_code"}
        /\ procs[p].authorization_code.code \in deleted
        /\ procs[q].pc = "cl_codes"
        /\ procs[q].codes_cleaned >= 1

\* C14: a cleanup_expired_data called the moment another one has returned,
\* with the clock where it was, reports zero tokens and zero codes deleted
\* and leaves all five collections as it found them
C14_SweepIdempotent ==
    IsCleanup /\ last.after # NoSweep =>
        /\ last.ret.tokens = 0
        /\ last.ret.auth_codes = 0
        /\ StoreNow = StoreOf(last.pre)
        /\ now = last.pre.now

\* C14 witness: the second of two sweeps in succession has just returned, and
\* the first had deleted a token and a code
C14_SecondSweep ==
    /\ IsCleanup
    /\ last.after # NoSweep
    /\ last.after.tokens >= 1
    /\ last.after.auth_codes >= 1

\* C15: handle_simple_callback on a state with no FlowState fails with HTTP
\* 400 whatever the credentials; on a state with a FlowState and a username
\* or password that is not the demo one it fails with HTTP 401; and it
\* returns the redirect exactly when the FlowState is stored and both match
C15_StateThenCredentials ==
    IsCallback =>
        /\ ~Exists(last.pre.oauth_state, last.state) =>
              last.ret = HttpError(HttpBadRequest)
        /\ /\ Exists(last.pre.oauth_state, last.state)
           /\ (last.username # DemoUsername \/ last.password # DemoPassword)
           => last.ret = HttpError(HttpUnauthorized)
        /\ last.ret.kind = "redirect" <=>
              /\ Exists(last.pre.oauth_state, last.state)
              /\ last.username = DemoUsername
              /\ last.password = DemoPassword

\* C15 witness: a callback with a wrong password on a state that has no
\* FlowState has just failed with HTTP 400, not 401
C15_BadStateBadPassword ==
    /\ IsCallback
    /\ ~Exists(last.pre.oauth_state, last.state)
    /\ last.password # DemoPassword
    /\ last.ret = HttpError(HttpBadRequest)

\* C16: with the handlers run one after another, a handle_simple_callback
\* that returns the redirect has added exactly one document to auth_codes,
\* under a new code, with expires_at = now + 300 s and the client_id,
\* redirect_uri, code_challenge and resource of the FlowState that was stored
\* under its state, and the redirect carries that code and that state
C16_CodeFromFlowState ==
    IsCallback /\ last.ret.kind = "redirect" =>
        LET fs == last.pre.oauth_state[last.state]
            c == last.ret.code
        IN  /\ ~Exists(last.pre.auth_codes, c)
            /\ DOMAIN auth_codes = DOMAIN last.pre.auth_codes \cup {c}
            /\ \A k \in DOMAIN last.pre.auth_codes :
                  auth_codes[k] = last.pre.auth_codes[k]
            /\ auth_codes[c].code = c
            /\ auth_codes[c].expires_at = last.pre.now + CodeTTL * TickRes
            /\ auth_codes[c].client_id = fs.client_id
            /\ auth_codes[c].redirect_uri = fs.redirect_uri
            /\ auth_codes[c].code_challenge = fs.code_challenge
            /\ auth_codes[c].resource = fs.resource
            /\ last.ret.state = last.state
            /\ last.ret.redirect_uri = fs.redirect_uri

\* C16 witness: a callback has just minted a second code, after the clock
\* has advanced, from a FlowState that carries a resource
C16_SecondCodeMinted ==
    /\ IsCallback
    /\ last.ret.kind = "redirect"
    /\ last.pre.auth_codes # EmptyColl
    /\ last.pre.now > 0
    /\ last.pre.oauth_state[last.state].resource # None

\* what C17 says of an exchange that has just returned a token, but for the
\* expiry: exactly one document was added to tokens, under a new token, with
\* the scopes and resource of the exchanged code; the response names it, with
\* token_type Bearer and expires_in 3600; and load_access_token on it would
\* now return it
ExchangeMinted ==
    LET t == last.ret.access_token
        ac == last.pre.auth_codes[last.code]
    IN  /\ ~Exists(last.pre.tokens, t)
        /\ DOMAIN tokens = DOMAIN last.pre.tokens \cup {t}
        /\ \A k \in DOMAIN last.pre.tokens : tokens[k] = last.pre.tokens[k]
        /\ tokens[t].token = t
        /\ tokens[t].scopes = ac.scopes
        /\ tokens[t].resource = ac.resource
        /\ last.ret.token_type = "Bearer"
        /\ last.ret.expires_in = ExpiresIn
        /\ GetToken(t) = Some(tokens[t])

\* C17 as stated: with the handlers run one after another, a successful
\* exchange at time now stores one new token with expires_at = now + 3600 s
C17_ExpiresAtNowPlus3600 ==
    IsExchange /\ last.ret.kind = "token" =>
        /\ ExchangeMinted
        /\ tokens[last.ret.access_token].expires_at =
              last.pre.now + TokenTTL * TickRes

\* C17 amended: the new token has expires_at = now truncated to a whole
\* second + 3600 s, which is at most now + 3600 s and less than a second short
\* of it
C17_ExpiresAtWholeSecondPlus3600 ==
    IsExchange /\ last.ret.kind = "token" =>
        /\ ExchangeMinted
        /\ tokens[last.ret.access_token].expires_at =
              (last.pre.now - (last.pre.now % TickRes)) + TokenTTL * TickRes
        /\ tokens[last.ret.access_token].expires_at <=
              last.pre.now + TokenTTL * TickRes
        /\ tokens[last.ret.access_token].expires_at >
              last.pre.now + (TokenTTL - 1) * TickRes

\* C17 witness: an exchange has just succeeded part-way through a second
C17_ExchangedMidSecond ==
    /\ IsExchange
    /\ last.ret.kind = "token"
    /\ last.pre.now % TickRes # 0

\* C18: with the handlers run one after another, an exchange succeeds exactly
\* when its code is stored and not past its expiry, whichever registered
\* client presents it, and the token minted has the client_id of the caller
C18_ClientNotChecked ==
    IsExchange =>
        /\ last.ret.kind = "token" <=>
              /\ Exists(last.pre.auth_codes, last.code)
              /\ ~(last.pre.auth_codes[last.code].expires_at < last.pre.now)
        /\ last.ret.kind = "token" =>
              tokens[last.ret.access_token].client_id = last.client_id

\* C18 witness: an exchange by a client other than the one the code was
\* issued to has just succeeded
C18_ForeignClientExchanged ==
    /\ IsExchange
    /\ last.ret.kind = "token"
    /\ last.pre.auth_codes[last.code].client_id # last.client_id
    /\ tokens[last.ret.access_token].client_id = last.client_id

IsVerify == last.op = "verify"

\* C20: a verify whose introspection call failed or timed out returns
\* invalid, whatever the token; and a verify returns valid only on a response
\* for a token that is stored and unexpired (active = true)
C20_FailsClosed ==
    IsVerify =>
        /\ last.outcome # "response" => last.ret = Invalid
        /\ last.ret.kind = "valid" =>
              /\ last.outcome = "response"
              /\ Exists(Unexpired(last.pre.tokens, last.pre.now), last.token)

\* C20 witness: the verify of a token that is stored and unexpired has just
\* returned invalid because the introspection call timed out
C20_ValidTokenTimedOut ==
    /\ IsVerify
    /\ last.outcome = "timeout"
    /\ Exists(Unexpired(last.pre.tokens, last.pre.now), last.token)
    /\ last.ret = Invalid

\* C21: on an introspection response for a token that is stored and
\* unexpired, a verifier with validate_resource set returns invalid when the
\* token's resource is not its server_url, and valid when it is; a verifier
\* without it returns valid whatever the resource
C21_StrictResource ==
    IsVerify /\ last.outcome = "response"
             /\ Exists(Unexpired(last.pre.tokens, last.pre.now), last.token) =>
        LET resource == last.pre.tokens[last.token].resource IN
        IF last.cfg.validate_resource
        THEN IF resource # last.cfg.server_url
             THEN last.ret = Invalid
             ELSE last.ret.kind = "valid"
        ELSE last.ret.kind = "valid" /\ last.ret.resource = resource

\* C21 witness: a verifier with validate_resource set has just rejected a
\* stored, unexpired token that was issued for another Resource Server
C21_ForeignResourceRejected ==
    /\ IsVerify
    /\ last.outcome = "response"
    /\ last.cfg.validate_resource
    /\ Exists(Unexpired(last.pre.tokens, last.pre.now), last.token)
    /\ last.pre.tokens[last.token].resource # None
    /\ last.pre.tokens[last.token].resource # last.cfg.server_url
    /\ last.ret = Invalid

\* C22: with the handlers run one after another, an exchange of a code that
\* is not stored or is past its expiry fails with the invalid-code error, and
\* leaves all five collections as they were except that the expired code is
\* deleted: no token and no UserData record is written
C22_FailedExchangeFrame ==
    IsExchange /\ (~Exists(last.pre.auth_codes, last.code)
                   \/ last.pre.auth_codes[last.code].expires_at < last.pre.now) =>
        /\ last.ret = InvalidCode
        /\ tokens = last.pre.tokens
        /\ user_data = last.pre.user_data
        /\ StoreNow = [StoreOf(last.pre) EXCEPT
                          !.auth_codes = DocDelete(@, last.code)]

\* C22 witness: the exchange of a stored code past its expiry has just failed,
\* and the code is gone
C22_ExpiredCodeExchangeFailed ==
    /\ IsExchange
    /\ Exists(last.pre.auth_codes, last.code)
    /\ last.pre.auth_codes[last.code].expires_at < last.pre.now
    /\ last.ret = InvalidCode
    /\ ~Exists(auth_codes, last.code)

\* C23: with handlers interleaved at every store call, a handler gets past
\* the credential check of handle_simple_callback only with the demo username
\* and password and a FlowState stored under its state; a code enters
\* auth_codes only by the set_auth_code of such a handler; and a token enters
\* tokens only by the set_token of an exchange holding a code that a callback
\* minted. The collections start empty, so no token or code is ever stored
\* without a credential validation before it
C23_MintedAfterCredentials ==
    [][/\ \A p \in Procs :
             procs[p].pc # "cb_set_code" /\ procs'[p].pc = "cb_set_code" =>
                 /\ procs[p].pc = "idle"
                 /\ procs'[p].username = DemoUsername
                 /\ procs'[p].password = DemoPassword
                 /\ Exists(oauth_state, procs'[p].state)
                 /\ procs'[p].state_data = oauth_state[procs'[p].state]
       /\ \A c \in DOMAIN auth_codes' \ DOMAIN auth_codes :
             \E p \in Procs :
                 /\ procs[p].pc = "cb_set_code"
                 /\ procs[p].username = DemoUsername
                 /\ procs[p].password = DemoPassword
                 /\ procs'[p].pc = "cb_set_user"
                 /\ procs'[p].new_code = c
                 /\ c \notin IssuedCodes
       /\ \A t \in DOMAIN tokens' \ DOMAIN tokens :
             \E p \in Procs :
                 /\ procs[p].pc = "ex_set_token"
                 /\ procs[p].authorization_code.code \in IssuedCodes
                 /\ procs'[p].pc = "ex_set_user"
                 /\ procs'[p].mcp_token = t
      ]_vars

\* C23 witness: a token and a code are stored, and a callback with a wrong
\* username or password has just been turned away
C23_StoredAndTurnedAway ==
    /\ DOMAIN tokens # {}
    /\ DOMAIN auth_codes # {}
    /\ IsCallback
    /\ last.ret = HttpError(HttpUnauthorized)
    /\ last.username # DemoUsername \/ last.password # DemoPassword

\* C24: with the handlers run one after another, a callback turned away with
\* HTTP 401 leaves all five collections as it found them, the FlowState of its
\* state included, and mints no code; and a callback posted right after it
\* with the same state and the demo credentials ends in the redirect, with
\* its code stored and the FlowState consumed
C24_RefusalKeepsFlowState ==
    /\ IsCallback /\ last.ret = HttpError(HttpUnauthorized) =>
          /\ StoreNow = StoreOf(last.pre)
          /\ Exists(oauth_state, last.state)
          /\ auth_codes = last.pre.auth_codes
          /\ user_data = last.pre.user_data
    /\ IsCallback /\ last.after = [kind |-> "refused", state |-> last.state]
                  /\ last.username = DemoUsername
                  /\ last.password = DemoPassword =>
          /\ last.ret.kind = "redirect"
          /\ Exists(auth_codes, last.ret.code)
          /\ ~Exists(last.pre.auth_codes, last.ret.code)
          /\ ~Exists(oauth_state, last.state)

\* C24 witness: a callback has just ended in the redirect, on the state for
\* which the callback before it was turned away with HTTP 401
C24_SucceededAfterRefusal ==
    /\ IsCallback
    /\ last.after = [kind |-> "refused", state |-> last.state]
    /\ last.ret.kind = "redirect"
    /\ Exists(last.pre.oauth_state, last.state)

\* C25: with the handlers run one after another, over any advance of the
\* clock and any number of sweeps, cleanup_expired_data returns with clients,
\* oauth_state and user_data as it found them, and the only step that takes a
\* key out of oauth_state is the delete_state of a handle_simple_callback on
\* that key, which then returns the redirect
C25_OnlyCallbackRemovesFlowState ==
    /\ [](IsCleanup =>
              /\ clients = last.pre.clients
              /\ oauth_state = last.pre.oauth_state
              /\ user_data = last.pre.user_data)
    /\ [][\A k \in DOMAIN oauth_state \ DOMAIN oauth_state' :
              \E p \in Procs :
                  /\ procs[p].pc = "cb_del_state"
                  /\ procs[p].state = k
                  /\ last'.op = "handle_simple_callback"
                  /\ last'.state = k
                  /\ last'.ret.kind = "redirect"]_vars

\* C25 witness: a sweep has just deleted an expired code that was minted from
\* the second authorize call, and the FlowState of the first authorize call,
\* older than that code, is still stored
C25_AbandonedFlowStateOutlivesSweep ==
    /\ IsCleanup
    /\ last.ret.auth_codes >= 1
    /\ Len(codeLog) >= 1
    /\ codeLog[1] = 2
    /\ \E s \in DOMAIN oauth_state : flowOf[s] = 1 /\ Exists(last.pre.oauth_state, s)

\* the most recent authorize call on state s
LatestOn(s) ==
    CHOOSE j \in 1..Len(flows) :
        flows[j].state = s /\ \A k \in (j + 1)..Len(flows) : flows[k].state # s

\* C26: with the handlers run one after another, an authorize call that
\* supplies its state stores its FlowState under that state whether or not
\* one is stored there already, leaving every other FlowState alone; and the
\* code a callback mints carries the client_id, redirect_uri, code_challenge
\* and resource of the most recent authorize call on its state
C26_LastAuthorizeWins ==
    /\ last.op = "authorize" /\ last.pstate # None =>
          /\ last.ret.state = last.pstate
          /\ oauth_state = DocSet(last.pre.oauth_state, last.pstate,
                                  StateData(last.client_id, last.params))
    /\ IsCallback /\ last.ret.kind = "redirect" =>
          LET a == flows[LatestOn(last.state)]
              code == auth_codes[last.ret.code]
          IN  /\ code.client_id = a.client_id
              /\ code.redirect_uri = a.params.redirect_uri
              /\ code.code_challenge = a.params.code_challenge
              /\ code.resource = a.params.resource

\* C26 witness: two authorize calls by different clients supplied the same
\* state, no callback came between them, and the callback on that state has
\* just minted the only code so far, for the client of the second call
C26_SecondAuthorizeWon ==
    /\ IsCallback
    /\ last.ret.kind = "redirect"
    /\ Len(flows) >= 2
    /\ flows[1].state = last.state
    /\ flows[2].state = last.state
    /\ flows[1].client_id # flows[2].client_id
    /\ Len(codeLog) = 1
    /\ auth_codes[last.ret.code].client_id = flows[2].client_id
    /\ auth_codes[last.ret.code].client_id # flows[1].client_id

\* C27: with handlers interleaved at every store call, the delete_auth_code
\* of an exchange runs only after the set_token of that exchange has stored
\* the token minted for that code, and the delete_state of a callback only
\* after its set_auth_code has stored the code; and while an exchange has
\* read its code but not yet stored its token, the code is still stored or a
\* token has been minted for it by another exchange
C27_StoredBeforeDeleted ==
    /\ [](\A p \in Procs :
              procs[p].pc = "ex_set_token" =>
                  \/ Exists(auth_codes, procs[p].authorization_code.code)
                  \/ \E i \in 1..Len(tokenLog) :
                        tokenLog[i] = procs[p].authorization_code.code)
    /\ [][\A p \in Procs :
              procs[p].pc = "ex_del_code" /\ procs'[p].pc = "idle" =>
                  /\ \E i \in 1..Len(tokenLog) :
                        /\ TokenKey(i) = procs[p].mcp_token
                        /\ tokenLog[i] = procs[p].authorization_code.code
                  /\ Exists(tokens, procs[p].mcp_token) \/ procs[p].mcp_token \in deleted
                  /\ ~Exists(auth_codes', procs[p].authorization_code.code)]_vars
    /\ [][\A p \in Procs :
              procs[p].pc = "cb_del_state" /\ procs'[p].pc = "idle" =>
                  /\ procs[p].new_code \in IssuedCodes
                  /\ Exists(auth_codes, procs[p].new_code) \/ procs[p].new_code \in deleted
                  /\ ~Exists(oauth_state', procs[p].state)]_vars

\* C27 witness: an exchange has stored its token and not yet deleted its
\* code, which get_auth_code would still return, while a callback has stored
\* its code and not yet deleted its FlowState
C27_BetweenStoreAndDelete ==
    \E p, q \in Procs :
        /\ procs[p].pc = "ex_del_code"
        /\ Exists(tokens, procs[p].mcp_token)
        /\ GetAuthCode(procs[p].authorization_code.code).kind = "some"
        /\ procs[q].pc = "cb_del_state"
        /\ Exists(auth_codes, procs[q].new_code)
        /\ Exists(oauth_state, procs[q].state)

====
